---- MODULE Spec2Model ----
(***************************************************************************)
(* Clipboard change-detection and bounded-history engine                   *)
(* (src-tauri/src/lib.rs).                                                 *)
(*                                                                         *)
(* Threads: the watcher thread (std::thread::spawn, lib.rs:537) runs       *)
(* on_clipboard_change / handle_clipboard_update once per OS event.  The   *)
(* commands get_clipboard_history, clear_clipboard_history and             *)
(* set_max_history_size are plain (non-async) #[tauri::command] functions, *)
(* which Tauri runs one at a time on the main thread; each may overlap a   *)
(* watcher cycle.  Both threads share one Arc<Mutex<ClipboardState>>.      *)
(*                                                                         *)
(* A step that only acquires the mutex is merged with the statement that   *)
(* follows it; every later statement executed under the mutex that changes *)
(* the store is a step of its own, so that half-done operations are states *)
(* of the model.                                                           *)
(*                                                                         *)
(* Option<T> is modelled as a sequence of length 0 (None) or 1 (Some).     *)
(*                                                                         *)
(* Specifications:                                                         *)
(*   Spec            store, watcher and the three store commands           *)
(*   ClassifySpec    the classifier on every clipboard answer              *)
(*   FairSpec        the watcher against read and clear, fairly scheduled  *)
(*   NotifySpec      the same steps with all commits and emits logged      *)
(*   ContentSpec     get_clipboard_content on every clipboard answer       *)
(*   FingerprintSpec captures of every kind against the last fingerprint   *)
(*   ImageSpec       captures of two images within one second              *)
(***************************************************************************)
EXTENDS Integers, Sequences, FiniteSets, TLC

\* ------------------------------------------------------------------ bounds
\* The watcher takes a new OS event only while fewer than MaxCommits items
\* were added since construction or the last clear (with the logs kept:
\* since construction).
MaxCommits == 3
\* set_max_history_size is called with sizes 0..MaxSize.
MaxSize == 2

\* ------------------------------------------------------- program constants
\* ClipboardState::default().max_history_size
DefaultMaxHistorySize == 100

\* Display texts fixed by the program (ASCII renderings of the literals).
ImageText == "[image]"
ImageSaveFailedText == "[image-save-failed]"
ImageReadFailedText == "[image-read-failed]"
RichTextFallbackText == "[rich-text]"
HtmlFallbackText == "[html]"
ReadFailedText == "[read-failed]"

\* ------------------------------------------------------------- environment
\* Values SystemTime::now().as_secs() can return.
Times == {0, 1}
Sizes == 0..MaxSize

\* format!("clipboard_image_{}.png", timestamp)
FileName(timestamp) == "clipboard_image_" \o ToString(timestamp) \o ".png"

FileNames == {FileName(t) : t \in Times}

\* Outcome of a clipboard read: the payload, "Err" for a failed read, and
\* "Absent" when has(format) is false.
Absent == "Absent"
Err == "Err"

\* Threads: the watcher thread and the thread running the commands.
Watcher == "watcher"
Callers == {"main"}
Free == "free"

\* ClipboardItem that stands for "no value" in a local variable.
NoItem ==
  [id |-> 0, content |-> "", content_type |-> "-", html_content |-> <<>>,
   rtf_content |-> <<>>, image_path |-> <<>>, timestamp |-> 0]

\* Locals of handle_clipboard_update before classification.
NoCapture ==
  [text |-> "", content_type |-> "-", html_content |-> <<>>,
   rtf_content |-> <<>>, image_path |-> <<>>]

\* No call of get_clipboard_content is returning.
NoCurrent ==
  [clip |-> [image |-> "-", rtf |-> "-", html |-> "-", text |-> "-"],
   ctx |-> FALSE,
   ok |-> FALSE,
   item |-> NoItem]

\* No clipboard answers: the watcher is not between classification and lock.
NoSeen ==
  [clip |-> [image |-> "-", rtf |-> "-", html |-> "-", text |-> "-"],
   saveOk |-> FALSE]

VARIABLES
  history,            \* ClipboardState.history
  last_content_hash,  \* ClipboardState.last_content_hash (Option)
  next_id,            \* ClipboardState.next_id
  max_history_size,   \* ClipboardState.max_history_size
  guard,              \* owner of the tokio Mutex, or Free
  files,              \* clipboard_images directory: file name -> bytes
  wpc,                \* watcher: position in handle_clipboard_update
  capture,            \* watcher: text/content_type/html/rtf/image_path locals
  new_item,           \* watcher: local new_item
  wres,               \* watcher: result of the last finished cycle
  added,              \* history variable: items this cycle passed to add_item
  emitted,            \* payloads this cycle emitted on "clipboard-changed"
  cpc,                \* command threads: position
  carg,               \* command threads: size argument
  cret,               \* command threads: value being returned
  committed,          \* history variable: items passed to add_item since
                      \* construction or the last clear
  runStart,           \* history variable: Len(committed) at last clear/resize
  runEmpty,           \* history variable: history was empty at that point
  stable,             \* history variable: history at the last guard release
  seen,               \* history variable: what the clipboard answered this cycle
  logging,            \* history variable: the two logs below are kept
  commitLog,          \* history variable: every item passed to add_item
  emitLog,            \* history variable: every emitted payload with its commit's number
  current             \* command threads: get_clipboard_content's answer, with what it asked

store == <<history, last_content_hash, next_id, max_history_size>>
wlocals == <<wpc, capture, new_item, wres, added>>
clocals == <<cpc, carg, cret>>
ghosts == <<committed, runStart, runEmpty>>
logs == <<logging, commitLog, emitLog>>
vars == <<history, last_content_hash, next_id, max_history_size, guard, files,
          wpc, capture, new_item, wres, added, emitted, cpc, carg, cret,
          committed, runStart, runEmpty, stable,
          seen,
          logging,
          commitLog,
          emitLog,
          current>>

Min(a, b) == IF a < b THEN a ELSE b

\* The last n elements of s.
LastN(s, n) == SubSeq(s, Len(s) - n + 1, Len(s))

\* ------------------------------------------------------------------- store
\* ClipboardState::calculate_hash: the values fed to the hasher, in order.
\* The hasher itself is taken to be injective on that sequence.
calculate_hash(item) ==
  <<item.content>> \o item.html_content \o item.rtf_content \o item.image_path

\* create_item taking the position in the history as the id.
create_item_positional(content, content_type, html_content, rtf_content, image_path, now) ==
  [id |-> Len(history), content |-> content, content_type |-> content_type,
   html_content |-> html_content, rtf_content |-> rtf_content,
   image_path |-> image_path, timestamp |-> now]

\* ClipboardState::create_item
create_item(content, content_type, html_content, rtf_content, image_path, now) ==
  [id |-> next_id, content |-> content, content_type |-> content_type,
   html_content |-> html_content, rtf_content |-> rtf_content,
   image_path |-> image_path, timestamp |-> now]

\* Evict with the newest item removed instead of the oldest.
EvictNewest(h, max) == IF Len(h) > max THEN SubSeq(h, 1, Len(h) - 1) ELSE h

\* add_item: if self.history.len() > self.max_history_size { remove(0) }
Evict(h, max) == IF Len(h) > max THEN Tail(h) ELSE h

\* Truncate keeping the oldest entries instead of the most recent.
TruncateKeepOldest(h, size) == IF Len(h) > size THEN SubSeq(h, 1, size) ELSE h

\* Truncate with the truncation forgotten.
TruncateNothing(h, size) == h

\* set_max_history_size: split_off(current_len - size) when current_len > size
Truncate(h, size) ==
  IF Len(h) > size THEN SubSeq(h, Len(h) - size + 1, Len(h)) ELSE h

\* IsDuplicate with the capture compared against every history entry.
IsDuplicateOfAny(last, hash) ==
  \/ last = <<hash>>
  \/ \E i \in 1..Len(history) : calculate_hash(history[i]) = hash

\* handle_clipboard_update: state.last_content_hash == Some(hash)
IsDuplicate(last, hash) == last = <<hash>>

\* A lock that never waits.
GuardIgnored == TRUE

\* state.lock().await completes only when nobody holds the mutex.
GuardFree == guard = Free

\* The state run() builds, lines 510-540.
Constructed ==
  /\ history = <<>>
  /\ last_content_hash = <<>>
  /\ next_id = 0
  /\ max_history_size = DefaultMaxHistorySize
  /\ guard = Free
  /\ files = [f \in FileNames |-> Absent]
  /\ wpc = "idle"
  /\ capture = NoCapture
  /\ new_item = NoItem
  /\ wres = "-"
  /\ added = <<>>
  /\ emitted = <<>>
  /\ cpc = [c \in Callers |-> "idle"]
  /\ carg = [c \in Callers |-> 0]
  /\ cret = [c \in Callers |-> <<>>]
  /\ committed = <<>>
  /\ runStart = 0
  /\ runEmpty = TRUE
  /\ stable = <<>>
  /\ seen = NoSeen
  /\ commitLog = <<>>
  /\ emitLog = <<>>
  /\ current = NoCurrent

\* The application after construction; the two logs are not kept.
Init ==
  /\ Constructed
  /\ logging = FALSE

\* --------------------------------------------------------------- classifier
\* What the clipboard capability answers during one cycle: image, rtf and
\* html are Absent when has(format) is false, Err when the read fails and the
\* payload otherwise; text is the payload of get_text() or Err.
ClipState(image, rtf, html, text) ==
  [image |-> image, rtf |-> rtf, html |-> html, text |-> text]

\* lines 195-225: the clipboard holds an image.
ImageBranch(clip, saveOk, now) ==
  IF clip.image = Err THEN
    [NoCapture EXCEPT !.content_type = "Image", !.text = ImageReadFailedText]
  ELSE IF saveOk THEN
    [NoCapture EXCEPT !.content_type = "Image", !.text = ImageText,
                      !.image_path = <<FileName(now)>>]
  ELSE
    [NoCapture EXCEPT !.content_type = "Image", !.text = ImageSaveFailedText]

\* RtfBranch that also keeps the html the clipboard offers.
RtfBranchKeepsHtml(clip) ==
  [NoCapture EXCEPT
     !.content_type = "RichText",
     !.rtf_content = IF clip.rtf = Err THEN <<>> ELSE <<clip.rtf>>,
     !.html_content = IF clip.html \in {Absent, Err} THEN <<>> ELSE <<clip.html>>,
     !.text = IF clip.text = Err THEN RichTextFallbackText ELSE clip.text]

\* lines 226-234: the clipboard holds rich text.
RtfBranch(clip) ==
  [NoCapture EXCEPT
     !.content_type = "RichText",
     !.rtf_content = IF clip.rtf = Err THEN <<>> ELSE <<clip.rtf>>,
     !.text = IF clip.text = Err THEN RichTextFallbackText ELSE clip.text]

\* lines 235-243: the clipboard holds html.
HtmlBranch(clip) ==
  [NoCapture EXCEPT
     !.content_type = "Html",
     !.html_content = IF clip.html = Err THEN <<>> ELSE <<clip.html>>,
     !.text = IF clip.text = Err THEN HtmlFallbackText ELSE clip.text]

\* TextBranch without the placeholder of a failed get_text.
TextBranchNoPlaceholder(clip) ==
  IF clip.text # Err THEN
    [NoCapture EXCEPT !.content_type = "Text", !.text = clip.text]
  ELSE
    [NoCapture EXCEPT !.content_type = "Unknown"]

\* lines 244-256: plain text, or Unknown when get_text fails.
TextBranch(clip) ==
  IF clip.text # Err THEN
    [NoCapture EXCEPT !.content_type = "Text", !.text = clip.text]
  ELSE
    [NoCapture EXCEPT !.content_type = "Unknown", !.text = ReadFailedText]

\* Classify with html tested before rich text.
ClassifyHtmlFirst(clip, saveOk, now) ==
  IF clip.image # Absent THEN ImageBranch(clip, saveOk, now)
  ELSE IF clip.html # Absent THEN HtmlBranch(clip)
  ELSE IF clip.rtf # Absent THEN RtfBranch(clip)
  ELSE TextBranch(clip)

\* handle_clipboard_update, lines 187-256: the locals after classification.
Classify(clip, saveOk, now) ==
  IF clip.image # Absent THEN ImageBranch(clip, saveOk, now)
  ELSE IF clip.rtf # Absent THEN RtfBranch(clip)
  ELSE IF clip.html # Absent THEN HtmlBranch(clip)
  ELSE TextBranch(clip)

\* image.save_to_path: the file is written when the image was read and saved.
SaveImage(clip, saveOk, now) ==
  IF clip.image \notin {Absent, Err} /\ saveOk
    THEN [files EXCEPT ![FileName(now)] = clip.image]
    ELSE files

\* ------------------------------------------------------------ watcher thread
\* ClipboardHandler::on_clipboard_change: one OS clipboard-change event.
OsEvent ==
  /\ wpc = "idle"
  /\ Len(committed) < MaxCommits
  /\ logging => Len(commitLog) < MaxCommits
  /\ wpc' = "capture"
  /\ wres' = "-"
  /\ added' = <<>>
  /\ emitted' = <<>>
  /\ UNCHANGED <<store, guard, files, capture, new_item, clocals, ghosts, stable, seen,
                 logs, current>>

\* handle_clipboard_update, lines 176-185: app_data_dir() or create_dir_all
\* fails, the cycle returns InitError.
WDirError ==
  /\ wpc = "capture"
  /\ wpc' = "idle"
  /\ wres' = "Err"
  /\ UNCHANGED <<store, guard, files, capture, new_item, added, emitted,
                 clocals, ghosts, stable, seen,
                 logs, current>>

\* handle_clipboard_update, lines 187-256: classification, without the guard.
WCapture(clip, saveOk, now) ==
  /\ wpc = "capture"
  /\ capture' = Classify(clip, saveOk, now)
  /\ seen' = [clip |-> clip, saveOk |-> saveOk]
  /\ files' = SaveImage(clip, saveOk, now)
  /\ wpc' = "lock"
  /\ UNCHANGED <<store, guard, new_item, wres, added, emitted, clocals,
                 ghosts, stable,
                 logs, current>>

\* The item of line 260.
Candidate(now) ==
  create_item(capture.text, capture.content_type, capture.html_content,
              capture.rtf_content, capture.image_path, now)

\* WDuplicate with the id generator advanced before the duplicate check.
WDuplicateTakesId(now) ==
  /\ wpc = "lock"
  /\ GuardFree
  /\ IsDuplicate(last_content_hash, calculate_hash(Candidate(now)))
  /\ wpc' = "idle"
  /\ wres' = "Ok(false)"
  /\ capture' = NoCapture
  /\ seen' = NoSeen
  /\ next_id' = next_id + 1
  /\ UNCHANGED <<history, last_content_hash, max_history_size, guard, files,
                 new_item, added, emitted, clocals, ghosts, stable,
                 logs, current>>

\* lines 259-266, duplicate: lock, create_item, calculate_hash, return
\* Ok(false); the guard is dropped on return.
WDuplicate(now) ==
  /\ wpc = "lock"
  /\ GuardFree
  /\ IsDuplicate(last_content_hash, calculate_hash(Candidate(now)))
  /\ wpc' = "idle"
  /\ wres' = "Ok(false)"
  /\ capture' = NoCapture
  /\ seen' = NoSeen
  /\ UNCHANGED <<store, guard, files, new_item, added, emitted, clocals,
                 ghosts, stable,
                 logs, current>>

\* lines 259-266, novel: lock, create_item, calculate_hash, go on to add_item
\* holding the guard.
WNovel(now) ==
  /\ wpc = "lock"
  /\ GuardFree
  /\ ~IsDuplicate(last_content_hash, calculate_hash(Candidate(now)))
  /\ guard' = Watcher
  /\ new_item' = Candidate(now)
  /\ capture' = NoCapture
  /\ seen' = NoSeen
  /\ wpc' = "push"
  /\ UNCHANGED <<store, files, wres, added, emitted, clocals, ghosts, stable,
                 logs, current>>

\* add_item, line 97: self.history.push(item.clone())
WPush ==
  /\ wpc = "push"
  /\ history' = Append(history, new_item)
  /\ committed' = Append(committed, new_item)
  /\ added' = Append(added, new_item)
  /\ commitLog' = IF logging THEN Append(commitLog, new_item) ELSE commitLog
  /\ wpc' = "evict"
  /\ UNCHANGED <<last_content_hash, next_id, max_history_size, guard, files,
                 capture, new_item, wres, emitted, clocals, runStart, runEmpty,
                 stable, seen,
                 logging, emitLog, current>>

\* add_item, lines 100-106: evict, record the hash, advance next_id.
WEvict ==
  /\ wpc = "evict"
  /\ history' = Evict(history, max_history_size)
  /\ last_content_hash' = <<calculate_hash(new_item)>>
  /\ next_id' = next_id + 1
  /\ wpc' = "drop"
  /\ UNCHANGED <<max_history_size, guard, files, capture, new_item, wres,
                 added, emitted, clocals, ghosts, stable, seen,
                 logs, current>>

\* WDrop with the guard kept while emitting.
WDropKeepsGuard ==
  /\ wpc = "drop"
  /\ wpc' = "emit"
  /\ UNCHANGED <<store, guard, files, capture, new_item, wres, added, emitted,
                 clocals, ghosts, stable, seen,
                 logs, current>>

\* line 270: drop(state)
WDrop ==
  /\ wpc = "drop"
  /\ guard' = Free
  /\ stable' = history
  /\ wpc' = "emit"
  /\ UNCHANGED <<store, files, capture, new_item, wres, added, emitted,
                 clocals, ghosts, seen,
                 logs, current>>

\* WEmit with the emit error ignored.
WEmitIgnoresError(ok) ==
  /\ wpc = "emit"
  /\ emitted' = IF ok THEN Append(emitted, new_item) ELSE emitted
  /\ wres' = "Ok(true)"
  /\ wpc' = "idle"
  /\ new_item' = NoItem
  /\ UNCHANGED <<store, guard, files, capture, added, clocals, ghosts, stable, seen,
                 logs, current>>

\* WEmit with the payload emitted twice.
WEmitTwice(ok) ==
  /\ wpc = "emit"
  /\ emitted' = IF ok THEN Append(emitted, new_item) ELSE emitted
  /\ emitLog' = IF ok /\ logging
                  THEN emitLog \o <<[seq |-> Len(commitLog), item |-> new_item],
                                   [seq |-> Len(commitLog), item |-> new_item]>>
                  ELSE emitLog
  /\ wres' = IF ok THEN "Ok(true)" ELSE "Err"
  /\ wpc' = "idle"
  /\ new_item' = NoItem
  /\ UNCHANGED <<store, guard, files, capture, added, clocals, ghosts, stable, seen,
                 logging, commitLog, current>>

\* lines 273-277: emit("clipboard-changed", new_item); a failed emit returns
\* EventError.
WEmit(ok) ==
  /\ wpc = "emit"
  /\ emitted' = IF ok THEN Append(emitted, new_item) ELSE emitted
  /\ emitLog' = IF ok /\ logging
                  THEN Append(emitLog, [seq |-> Len(commitLog), item |-> new_item])
                  ELSE emitLog
  /\ wres' = IF ok THEN "Ok(true)" ELSE "Err"
  /\ wpc' = "idle"
  /\ new_item' = NoItem
  /\ UNCHANGED <<store, guard, files, capture, added, clocals, ghosts, stable, seen,
                 logging, commitLog, current>>

\* ----------------------------------------------------------- command threads
\* get_clipboard_history, line 314: state.lock().await
ReadLock(c) ==
  /\ cpc[c] = "idle"
  /\ GuardFree
  /\ guard' = c
  /\ cpc' = [cpc EXCEPT ![c] = "read"]
  /\ UNCHANGED <<store, files, wlocals, emitted, carg, cret, ghosts, stable, seen,
                 logs, current>>

\* ReadClone that returns without dropping the guard.
ReadCloneKeepsGuard(c) ==
  /\ cpc[c] = "read"
  /\ cret' = [cret EXCEPT ![c] = history]
  /\ cpc' = [cpc EXCEPT ![c] = "read_ret"]
  /\ UNCHANGED <<store, guard, files, wlocals, emitted, carg, ghosts, stable, seen,
                 logs, current>>

\* get_clipboard_history, line 315: state.history.clone(); guard dropped.
ReadClone(c) ==
  /\ cpc[c] = "read"
  /\ cret' = [cret EXCEPT ![c] = history]
  /\ guard' = Free
  /\ cpc' = [cpc EXCEPT ![c] = "read_ret"]
  /\ UNCHANGED <<store, files, wlocals, emitted, carg, ghosts, stable, seen,
                 logs, current>>

\* get_clipboard_history, lines 316-317: Ok(history) handed to the caller.
ReadReturn(c) ==
  /\ cpc[c] = "read_ret"
  /\ cret' = [cret EXCEPT ![c] = <<>>]
  /\ cpc' = [cpc EXCEPT ![c] = "idle"]
  /\ UNCHANGED <<store, guard, files, wlocals, emitted, carg, ghosts, stable, seen,
                 logs, current>>

\* clear_clipboard_history, lines 446-447: lock, state.history.clear()
ClearHistory(c) ==
  /\ cpc[c] = "idle"
  /\ GuardFree
  /\ guard' = c
  /\ history' = <<>>
  /\ cpc' = [cpc EXCEPT ![c] = "clear_reset"]
  /\ UNCHANGED <<last_content_hash, next_id, max_history_size, files, wlocals,
                 emitted, carg, cret, ghosts, stable, seen,
                 logs, current>>

\* ClearReset with the last fingerprint left in place.
ClearResetKeepsHash(c) ==
  /\ cpc[c] = "clear_reset"
  /\ next_id' = 0
  /\ guard' = Free
  /\ stable' = history
  /\ committed' = <<>>
  /\ runStart' = 0
  /\ runEmpty' = (history = <<>>)
  /\ cpc' = [cpc EXCEPT ![c] = "idle"]
  /\ UNCHANGED <<history, last_content_hash, max_history_size, files, wlocals,
                 emitted, carg, cret, seen,
                 logs, current>>

\* clear_clipboard_history, lines 448-450; guard dropped.
ClearReset(c) ==
  /\ cpc[c] = "clear_reset"
  /\ next_id' = 0
  /\ last_content_hash' = <<>>
  /\ guard' = Free
  /\ stable' = history
  /\ committed' = <<>>
  /\ runStart' = 0
  /\ runEmpty' = (history = <<>>)
  /\ cpc' = [cpc EXCEPT ![c] = "idle"]
  /\ UNCHANGED <<history, max_history_size, files, wlocals, emitted, carg, cret, seen,
                 logs, current>>

\* set_max_history_size, lines 474-475: lock, state.max_history_size = size
ResizeSet(c, size) ==
  /\ cpc[c] = "idle"
  /\ GuardFree
  /\ guard' = c
  /\ carg' = [carg EXCEPT ![c] = size]
  /\ max_history_size' = size
  /\ cpc' = [cpc EXCEPT ![c] = "truncate"]
  /\ UNCHANGED <<history, last_content_hash, next_id, files, wlocals, emitted,
                 cret, ghosts, stable, seen,
                 logs, current>>

\* ResizeTruncate that forgets the last hash when the history becomes empty.
ResizeTruncateForgets(c) ==
  /\ cpc[c] = "truncate"
  /\ history' = Truncate(history, carg[c])
  /\ last_content_hash' = IF history' = <<>> THEN <<>> ELSE last_content_hash
  /\ guard' = Free
  /\ stable' = history'
  /\ runStart' = Len(committed)
  /\ runEmpty' = (history' = <<>>)
  /\ carg' = [carg EXCEPT ![c] = 0]
  /\ cpc' = [cpc EXCEPT ![c] = "idle"]
  /\ UNCHANGED <<next_id, max_history_size, files, wlocals,
                 emitted, cret, committed, seen,
                 logs, current>>

\* set_max_history_size, lines 478-486; guard dropped.
ResizeTruncate(c) ==
  /\ cpc[c] = "truncate"
  /\ history' = Truncate(history, carg[c])
  /\ guard' = Free
  /\ stable' = history'
  /\ runStart' = Len(committed)
  /\ runEmpty' = (history' = <<>>)
  /\ carg' = [carg EXCEPT ![c] = 0]
  /\ cpc' = [cpc EXCEPT ![c] = "idle"]
  /\ UNCHANGED <<last_content_hash, next_id, max_history_size, files, wlocals,
                 emitted, cret, committed, seen,
                 logs, current>>

\* get_clipboard_content, lines 337-378: the Result it returns when the
\* clipboard context could be created; Err is ok = FALSE.
get_clipboard_content(clip, now) ==
  LET Item(text, content_type, html_content, rtf_content) ==
        [id |-> 0, content |-> text, content_type |-> content_type,
         html_content |-> html_content, rtf_content |-> rtf_content,
         image_path |-> <<>>, timestamp |-> now]
  IN IF clip.image # Absent THEN
       [ok |-> TRUE, item |-> Item(ImageText, "Image", <<>>, <<>>)]
     ELSE IF clip.rtf # Absent THEN
       [ok |-> TRUE,
        item |-> Item(IF clip.text = Err THEN RichTextFallbackText ELSE clip.text,
                      "RichText", <<>>,
                      IF clip.rtf = Err THEN <<>> ELSE <<clip.rtf>>)]
     ELSE IF clip.html # Absent THEN
       [ok |-> TRUE,
        item |-> Item(IF clip.text = Err THEN HtmlFallbackText ELSE clip.text,
                      "Html",
                      IF clip.html = Err THEN <<>> ELSE <<clip.html>>, <<>>)]
     ELSE IF clip.text # Err THEN
       [ok |-> TRUE, item |-> Item(clip.text, "Text", <<>>, <<>>)]
     ELSE
       [ok |-> FALSE, item |-> NoItem]

\* get_clipboard_content, lines 324-378: the whole command; no lock is
\* taken. A failed ClipboardContext::new() returns Err at once.
ContentCall(c, ctxOk, clip, now) ==
  /\ cpc[c] = "idle"
  /\ current' = IF ctxOk
                  THEN [clip |-> clip, ctx |-> TRUE]
                         @@ get_clipboard_content(clip, now)
                  ELSE [NoCurrent EXCEPT !.clip = clip]
  /\ cpc' = [cpc EXCEPT ![c] = "content_ret"]
  /\ UNCHANGED <<store, guard, files, wlocals, emitted, carg, cret, ghosts,
                 stable, seen, logs>>

\* The Result handed to the caller.
ContentReturn(c) ==
  /\ cpc[c] = "content_ret"
  /\ current' = NoCurrent
  /\ cpc' = [cpc EXCEPT ![c] = "idle"]
  /\ UNCHANGED <<store, guard, files, wlocals, emitted, carg, cret, ghosts,
                 stable, seen, logs>>

\* get_clipboard_image, lines 387-393: the bytes of the named file in the
\* clipboard_images directory dir, Err when there is no such file.
ReadImage(dir, image_name) ==
  IF image_name \notin DOMAIN dir \/ dir[image_name] = Absent
    THEN Err
    ELSE dir[image_name]
get_clipboard_image(image_name) == ReadImage(files, image_name)

\* ------------------------------------------------------------ specification
\* Clipboard states explored together with the store and the concurrency.
Texts == {"a", "b"}
Images == {"png1"}
StoreClips ==
  {ClipState(i, Absent, Absent, t) : i \in {Absent} \cup Images,
                                     t \in Texts \cup {Err}}
StoreTimes == {0}

WatcherStep(Clips, T) ==
  \/ OsEvent
  \/ WDirError
  \/ \E clip \in Clips, saveOk \in BOOLEAN, now \in T :
       WCapture(clip, saveOk, now)
  \/ \E now \in T : WDuplicate(now)
  \/ \E now \in T : WNovel(now)
  \/ WPush
  \/ WEvict
  \/ WDrop
  \/ \E ok \in BOOLEAN : WEmit(ok)

CommandStep ==
  \E c \in Callers :
    \/ ReadLock(c)
    \/ ReadClone(c)
    \/ ReadReturn(c)
    \/ ClearHistory(c)
    \/ ClearReset(c)
    \/ \E size \in Sizes : ResizeSet(c, size)
    \/ ResizeTruncate(c)

Next == WatcherStep(StoreClips, StoreTimes) \/ CommandStep

Spec == Init /\ [][Next]_vars

\* ===================================================================
\* Properties
\* ===================================================================
\* Nobody is in the middle of changing the store: the guard is free, or held
\* by get_clipboard_history, which only reads.
Quiescent == guard = Free \/ \E c \in Callers : cpc[c] = "read"

\* Items added since the last clear or resize.
Run == SubSeq(committed, runStart + 1, Len(committed))

\* C1: starting from an empty store with capacity C, after N committed
\* inserts with no clear or resize in between, the history (what a snapshot
\* returns) is exactly the last min(N, C) inserted items, oldest first.
C1_LastInsertedRetained ==
  (runEmpty /\ Quiescent) =>
     /\ Len(history) = Min(Len(Run), max_history_size)
     /\ history = LastN(Run, Min(Len(Run), max_history_size))

\* Three inserts into an empty store of capacity 2: the oldest was evicted.
C1_Witness ==
  /\ runEmpty /\ Quiescent
  /\ max_history_size = 2
  /\ Len(Run) = 3
  /\ history = <<Run[2], Run[3]>>

\* C2: whenever no store operation is half done the history is no longer
\* than the capacity, and a snapshot returned while the capacity is 0 is
\* empty although the watcher keeps adding items.
C2_LengthWithinCapacity ==
  /\ Quiescent => Len(history) <= max_history_size
  /\ \A c \in Callers :
       (cpc[c] = "read_ret" /\ max_history_size = 0) => cret[c] = <<>>

\* Capacity 0: the watcher has finished adding an item (it is about to emit)
\* and get_clipboard_history, which took the guard after that, finds the
\* history empty.
C2_Witness ==
  /\ max_history_size = 0
  /\ Len(Run) > 0
  /\ wpc = "emit"
  /\ history = <<>>
  /\ \E c \in Callers : cpc[c] = "read"

\* The fingerprint of the capture the watcher is about to check.
CaptureFingerprint == calculate_hash(Candidate(0))

\* C3: a watcher cycle goes on to add its capture exactly when the store has
\* no last fingerprint or the capture's fingerprint differs from it, and it
\* returns without adding exactly when the two are equal; older history
\* entries play no part, and the capture that goes on is appended to the
\* history.
C3_CommitIffFingerprintDiffers ==
  [][ /\ (wpc = "lock" /\ wpc' # "lock") =>
            /\ (wpc' = "push") <=>
                 (\/ last_content_hash = <<>>
                  \/ last_content_hash[1] # CaptureFingerprint)
            /\ (wpc' = "idle") <=> (last_content_hash = <<CaptureFingerprint>>)
            /\ (wpc' = "push") => calculate_hash(new_item') = CaptureFingerprint
      /\ (wpc = "push" /\ wpc' # "push") => history' = Append(history, new_item)
    ]_vars

\* The newest entry has the content of the oldest but not of the one between
\* them: a revert to an older, not most recent, entry was added again.
C3_Witness ==
  /\ Len(history) = 3
  /\ wpc = "drop"
  /\ history[3] = new_item
  /\ calculate_hash(history[1]) = calculate_hash(history[3])
  /\ calculate_hash(history[2]) # calculate_hash(history[3])

NoAdjacentDuplicates ==
  \A i \in 1..(Len(history) - 1) :
    calculate_hash(history[i]) # calculate_hash(history[i + 1])

\* C4: a cycle that discards its capture as a duplicate leaves history,
\* next id, last fingerprint and capacity as they were, emits nothing and
\* reports Ok(false); so no two neighbouring history entries have the same
\* content.
C4_DuplicateLeavesStoreUntouched ==
  /\ []NoAdjacentDuplicates
  /\ [][ (wpc = "lock" /\ wpc' = "idle") =>
            /\ UNCHANGED <<history, next_id, last_content_hash, max_history_size>>
            /\ added' = <<>>
            /\ emitted' = <<>>
            /\ wres' = "Ok(false)"
       ]_vars

\* The same content was captured twice in a row: one entry, and the second
\* cycle reported "no change".
C4_Witness ==
  /\ wpc = "idle"
  /\ wres = "Ok(false)"
  /\ Len(committed) = 1
  /\ history = committed
  /\ next_id = 1

\* C5: clear_clipboard_history leaves the history empty, next_id 0, no last
\* fingerprint and the capacity as it was; the first item added after it has
\* id 0, and a capture checked while there is no last fingerprint is always
\* added.
C5_ClearResetsStore ==
  /\ [][ \A c \in Callers :
           /\ (cpc[c] = "idle" /\ cpc'[c] = "clear_reset") =>
                 max_history_size' = max_history_size
           /\ (cpc[c] = "clear_reset" /\ cpc'[c] = "idle") =>
                 /\ history' = <<>>
                 /\ next_id' = 0
                 /\ last_content_hash' = <<>>
                 /\ max_history_size' = max_history_size
       ]_vars
  /\ [](committed # <<>> => committed[1].id = 0)
  /\ [][ (wpc = "lock" /\ wpc' # "lock" /\ last_content_hash = <<>>) =>
            (wpc' = "push" /\ new_item'.id = next_id)
       ]_vars

\* A clear is under way (history already emptied) on a store whose ids had
\* advanced, while the watcher waits with a capture identical to the entry
\* added last before the clear.
C5_Witness ==
  /\ \E c \in Callers : cpc[c] = "clear_reset"
  /\ wpc = "lock"
  /\ next_id > 0
  /\ last_content_hash = <<CaptureFingerprint>>
  /\ history = <<>>

\* C6: set_max_history_size(k) sets the capacity to k and leaves the last
\* min(L, k) entries of the previous history, in their order.
C6_ResizeKeepsMostRecent ==
  [][ \A c \in Callers :
        /\ (cpc[c] = "idle" /\ cpc'[c] = "truncate") =>
              /\ history' = history
              /\ max_history_size' = carg'[c]
        /\ (cpc[c] = "truncate" /\ cpc'[c] = "idle") =>
              /\ max_history_size' = carg[c]
              /\ Len(history') = Min(Len(history), carg[c])
              /\ history' = LastN(history, Min(Len(history), carg[c]))
    ]_vars

\* A resize to k >= 1 is under way on a history longer than k.
C6_Witness ==
  \E c \in Callers :
    /\ cpc[c] = "truncate"
    /\ carg[c] >= 1
    /\ max_history_size = carg[c]
    /\ Len(history) > carg[c]

\* C7: the ids in the history increase strictly from oldest to newest, and
\* the k-th item added since construction or the last clear (from 0) has
\* id k, whatever was discarded, evicted or resized in between.
C7_IdsCountCommits ==
  /\ \A i \in 1..(Len(history) - 1) : history[i].id < history[i + 1].id
  /\ \A k \in 1..Len(committed) : committed[k].id = k - 1

\* Capacity 1 set after two adds, then a third add evicted the second: the
\* only entry left has id 2.
C7_Witness ==
  /\ guard = Free
  /\ max_history_size = 1
  /\ runStart = 2
  /\ Len(committed) = 3
  /\ Len(history) = 1
  /\ history[1].id = 2

\* C8: when the watcher is about to emit "clipboard-changed" for new_item,
\* add_item for it has completed (unless a clear came after it, the store's
\* last fingerprint and next id are those the add left) and the watcher does
\* not hold the guard, so a command can hold it at that moment.
C8_EmitAfterInsertAndRelease ==
  wpc = "emit" =>
    /\ guard # Watcher
    /\ added = <<new_item>>
    /\ \/ committed = <<>>
       \/ /\ committed[Len(committed)] = new_item
          /\ last_content_hash = <<calculate_hash(new_item)>>
          /\ next_id = new_item.id + 1

\* get_clipboard_history holds the guard while the watcher is about to emit,
\* and the history it is about to copy ends with the emitted entry.
C8_Witness ==
  /\ wpc = "emit"
  /\ \E c \in Callers : cpc[c] = "read" /\ guard = c
  /\ history # <<>>
  /\ history[Len(history)] = new_item

\* C9 as claimed: at the end of every cycle either an entry was added and a
\* notification for it emitted, or nothing was added and nothing emitted.
C9_CommittedIffNotified ==
  (wpc = "idle" /\ wres # "-") =>
     \/ (Len(added) = 1 /\ emitted = added)
     \/ (added = <<>> /\ emitted = <<>>)

\* C9 as amended: at the end of every cycle either an entry was added and
\* notified (Ok(true)), or it was added and the emit failed (the cycle
\* returns the error and the add stays), or nothing was added and nothing
\* emitted; a notification always carries the entry just added, and the
\* watcher changes the store only inside add_item.
C9_CommitNotRolledBack ==
  /\ []((wpc = "idle" /\ wres # "-") =>
          \/ (wres = "Ok(true)" /\ Len(added) = 1 /\ emitted = added)
          \/ (wres = "Err" /\ Len(added) = 1 /\ emitted = <<>>)
          \/ (wres \in {"Ok(false)", "Err"} /\ added = <<>> /\ emitted = <<>>))
  /\ [][ (wpc # wpc' /\ wpc \notin {"push", "evict"}) =>
            UNCHANGED <<history, next_id, last_content_hash, max_history_size>>
       ]_vars

\* A cycle ended with the emit error although its entry is in the history.
C9_Witness ==
  /\ wpc = "idle"
  /\ wres = "Err"
  /\ Len(added) = 1
  /\ emitted = <<>>
  /\ history # <<>>
  /\ history[Len(history)] = added[1]

\* Threads between acquiring and releasing the guard.
Inside ==
  {t \in {Watcher} : wpc \in {"push", "evict", "drop"}}
    \cup {c \in Callers : cpc[c] \in {"read", "clear_reset", "truncate"}}

MutualExclusion ==
  /\ Cardinality(Inside) <= 1
  /\ \A t \in Inside : guard = t
  /\ Inside = {} => guard = Free

\* C10: at most one store operation is inside the guard at a time, and the
\* history get_clipboard_history returns is the history as the last
\* completed operation left it, never that of a half-done add, clear or
\* resize.
C10_OperationsAtomic ==
  /\ []MutualExclusion
  /\ [](guard = Free => stable = history)
  /\ [][ \A c \in Callers :
           (cpc[c] = "read" /\ cpc'[c] = "read_ret") =>
              (cret'[c] = history /\ cret'[c] = stable)
       ]_vars

\* get_clipboard_history holds the guard on a full history while the watcher
\* waits for the guard with a capture that will be added and evict the oldest.
C10_Witness ==
  /\ \E c \in Callers : cpc[c] = "read" /\ guard = c
  /\ wpc = "lock"
  /\ max_history_size >= 1
  /\ Len(history) = max_history_size
  /\ last_content_hash # <<CaptureFingerprint>>

\* ===================================================================
\* The classifier on every clipboard state

\* Rich-text and html payloads.
Payloads == {"x"}

\* Every answer of the clipboard capability: each of image, rtf and html is
\* absent, unreadable or a payload; the text is unreadable, empty or not.
AllClips ==
  {ClipState(i, r, h, t) : i \in {Absent, Err} \cup Images,
                           r \in {Absent, Err} \cup Payloads,
                           h \in {Absent, Err} \cup Payloads,
                           t \in {Err, ""} \cup Texts}

\* One OS clipboard-change event on a store without commits: the classifier
\* does not read the store, clear_clipboard_history brings the store back.
\* No capture is a duplicate then, every cycle goes on to add_item.
OsEventFresh ==
  /\ committed = <<>>
  /\ OsEvent

ClearStep == \E c \in Callers : ClearHistory(c) \/ ClearReset(c)

ClassifyNext ==
  \/ OsEventFresh
  \/ WDirError
  \/ \E clip \in AllClips, saveOk \in BOOLEAN, now \in StoreTimes :
       WCapture(clip, saveOk, now)
  \/ \E now \in StoreTimes : WNovel(now)
  \/ WPush
  \/ WEvict
  \/ WDrop
  \/ \E ok \in BOOLEAN : WEmit(ok)
  \/ ClearStep

ClassifySpec == Init /\ [][ClassifyNext]_vars

\* The classifier's output of this cycle and the entries of the history.
Classified == wpc = "lock"
Variants(e) ==
  (IF e.html_content # <<>> THEN {"Html"} ELSE {})
    \cup (IF e.rtf_content # <<>> THEN {"RichText"} ELSE {})
    \cup (IF e.image_path # <<>> THEN {"Image"} ELSE {})
HistoryEntries == {history[i] : i \in 1..Len(history)}

\* C11 as stated: every entry of kind Html, RichText or Image has exactly the
\* variant of its kind populated, an entry of kind Text or Unknown has none.
ExactlyOwnVariant(e) ==
  Variants(e) = IF e.content_type \in {"Text", "Unknown"} THEN {}
                ELSE {e.content_type}
C11_ExactlyOneVariant ==
  /\ Classified => ExactlyOwnVariant(capture)
  /\ \A e \in HistoryEntries : ExactlyOwnVariant(e)

\* C11: an entry has no variant but the one of its kind, and the classifier
\* populates that one exactly when its read (for an image also the store)
\* succeeded; entries of kind Text or Unknown have none.
C11_OnlyOwnVariantWhenRead ==
  /\ \A e \in HistoryEntries : Variants(e) \subseteq {e.content_type}
  /\ Classified =>
       LET k == capture.content_type
           ok == CASE k = "Image" -> seen.clip.image # Err /\ seen.saveOk
                   [] k = "RichText" -> seen.clip.rtf # Err
                   [] k = "Html" -> seen.clip.html # Err
                   [] OTHER -> FALSE
       IN Variants(capture) = IF ok THEN {k} ELSE {}

\* An image whose store failed is in the history without an image_path.
C11_Witness ==
  /\ Len(history) = 1
  /\ history[1].content_type = "Image"
  /\ history[1].content = ImageSaveFailedText
  /\ Variants(history[1]) = {}

\* C12 as stated: the display text of the classifier's output and of every
\* history entry is never the empty string.
C12_DisplayTextNeverEmpty ==
  /\ Classified => capture.text # ""
  /\ \A e \in HistoryEntries : e.content # ""

\* C12: the display text is empty only when get_text succeeded with the
\* empty string on a clipboard without image; every failed read or store
\* gives a nonempty placeholder.
C12_EmptyOnlyForEmptyText ==
  /\ Classified =>
       (capture.text = "" <=> seen.clip.image = Absent /\ seen.clip.text = "")
  /\ \A e \in HistoryEntries :
       e.content = "" => e.content_type \in {"Text", "RichText", "Html"}

\* The clipboard held empty plain text only: the entry is in the history
\* with an empty display text.
C12_Witness ==
  /\ Len(history) = 1
  /\ history[1].content_type = "Text"
  /\ history[1].content = ""

\* A capture step of this cycle failed: the image read or its store, the
\* rich-text or html read of the chosen kind, or the text read.
FailedCapture ==
  /\ wpc = "lock"
  /\ IF seen.clip.image # Absent
       THEN seen.clip.image = Err \/ ~seen.saveOk
       ELSE \/ seen.clip.text = Err
            \/ seen.clip.rtf = Err
            \/ seen.clip.rtf = Absent /\ seen.clip.html = Err

\* C13 as stated: a cycle whose capture failed, or whose image directory
\* could not be obtained or created, does not end before add_item: it goes
\* on to commit its placeholder entry.
C13_FailedCaptureCommitted ==
  [][/\ wpc = "capture" => wpc' # "idle"
     /\ FailedCapture => wpc' # "idle"]_vars

\* The kind the precedence Image, RichText, Html, PlainText gives a
\* clipboard answer; Unknown when none is there and the text is unreadable.
KindByPrecedence(clip) ==
  CASE clip.image # Absent -> "Image"
    [] clip.image = Absent /\ clip.rtf # Absent -> "RichText"
    [] clip.image = Absent /\ clip.rtf = Absent /\ clip.html # Absent -> "Html"
    [] clip.image = Absent /\ clip.rtf = Absent /\ clip.html = Absent
         /\ clip.text # Err -> "Text"
    [] OTHER -> "Unknown"

\* C14: the classifier's content kind is the first available of Image,
\* RichText, Html, PlainText in that order, whatever else the clipboard
\* holds and whichever reads fail; Unknown when none is available.
C14_KindByPrecedence ==
  Classified => capture.content_type = KindByPrecedence(seen.clip)

\* Rich text and html are both on the clipboard, the entry is RichText.
C14_Witness ==
  /\ Classified
  /\ seen.clip.image = Absent
  /\ seen.clip.rtf \in Payloads
  /\ seen.clip.html \in Payloads
  /\ capture.content_type = "RichText"

\* ===================================================================
\* Fair scheduling

\* The steps of a watcher cycle that wait for nothing.
WatcherRuns ==
  \/ WDirError
  \/ \E clip \in StoreClips, saveOk \in BOOLEAN, now \in StoreTimes :
       WCapture(clip, saveOk, now)
  \/ WPush
  \/ WEvict
  \/ WDrop
  \/ \E ok \in BOOLEAN : WEmit(ok)

\* The watcher's state.lock().await of line 259 completing.
WatcherLocks == \E now \in StoreTimes : WDuplicate(now) \/ WNovel(now)

\* A command that holds the guard runs to its end.
CommandReleases == \E c \in Callers : ReadClone(c) \/ ClearReset(c)

\* The watcher against get_clipboard_history and clear_clipboard_history.
ReadStep == \E c \in Callers : ReadLock(c) \/ ReadClone(c) \/ ReadReturn(c)
FairNext == WatcherStep(StoreClips, StoreTimes) \/ ReadStep \/ ClearStep

\* The threads keep running, a command function never blocks between lock
\* and return, and tokio's Mutex serves its waiters in order, so a waiter
\* for a guard that is released again and again gets it.
FairSpec ==
  /\ Init
  /\ [][FairNext]_vars
  /\ WF_vars(WatcherRuns)
  /\ SF_vars(WatcherLocks)
  /\ WF_vars(CommandReleases)

\* C15: every clipboard-change event brings the watcher back to idle,
\* whichever steps of the cycle fail and whatever the commands do meanwhile,
\* and an idle watcher does not hold the guard.
C15_CycleEnds ==
  /\ (wpc # "idle") ~> (wpc = "idle")
  /\ [](wpc = "idle" => guard # Watcher)

\* A cycle has ended with an error while a command holds the guard.
C15_Witness ==
  /\ wpc = "idle"
  /\ wres = "Err"
  /\ \E c \in Callers : guard = c

\* ===================================================================
\* Notifications against commits

\* The application with the two logs kept: the whole sequence of items
\* passed to add_item and the whole sequence of emitted payloads, neither
\* reset by clear_clipboard_history.
InitLogging ==
  /\ Constructed
  /\ logging = TRUE

\* Plain-text clipboards are enough to tell the commits apart.
NotifyClips == {ClipState(Absent, Absent, Absent, t) : t \in Texts}
NotifyNext == WatcherStep(NotifyClips, StoreTimes) \/ ReadStep \/ ClearStep

NotifySpec == InitLogging /\ [][NotifyNext]_vars

\* C16: the emitted payloads are, in order, a subsequence of the items
\* passed to add_item: each payload is the item of the commit it is
\* numbered with, and the numbers strictly increase, so no item is notified
\* without its commit, twice, or out of order.
C16_NotificationsFollowCommits ==
  /\ \A i \in 1..Len(emitLog) :
       /\ emitLog[i].seq \in 1..Len(commitLog)
       /\ commitLog[emitLog[i].seq] = emitLog[i].item
  /\ \A i, j \in 1..Len(emitLog) : i < j => emitLog[i].seq < emitLog[j].seq

\* Three commits, the first and the third notified, the second not.
C16_Witness ==
  /\ Len(commitLog) = 3
  /\ Len(emitLog) = 2
  /\ emitLog[1].seq = 1
  /\ emitLog[2].seq = 3

\* ===================================================================
\* get_clipboard_content against the classifier

ContentNext ==
  \E c \in Callers :
    \/ \E ctxOk \in BOOLEAN, clip \in AllClips, now \in Times :
         ContentCall(c, ctxOk, clip, now)
    \/ ContentReturn(c)

ContentSpec == Init /\ [][ContentNext]_vars

\* C17 as stated, for a clipboard whose context could be created: the
\* command returns an entry, with id 0 and with the kind and display text
\* the watcher's classifier gives the same clipboard answers (whether its
\* image store succeeds or not), and the store is as it was.
C17_ReadCurrentAsClassifier ==
  \A c \in Callers :
    cpc[c] = "content_ret" /\ current.ctx =>
      /\ current.ok
      /\ current.item.id = 0
      /\ \E saveOk \in BOOLEAN, now \in Times :
           LET w == Classify(current.clip, saveOk, now)
           IN /\ current.item.content_type = w.content_type
              /\ current.item.content = w.text
      /\ store = <<<<>>, <<>>, 0, DefaultMaxHistorySize>>

\* ===================================================================
\* The last-fingerprint marker

\* C18: outside add_item, last_content_hash is None exactly when nothing has
\* been added since construction or the last clear, and otherwise the hash
\* of the item added last, whether or not that item is still in the history;
\* set_max_history_size never changes it.
C18_MarkerIsLastCommit ==
  /\ [](wpc # "evict" =>
          last_content_hash =
            IF committed = <<>> THEN <<>>
            ELSE <<calculate_hash(committed[Len(committed)])>>)
  /\ [][(\E c \in Callers : cpc[c] = "truncate" \/ cpc'[c] = "truncate")
          => last_content_hash' = last_content_hash]_vars

\* A resize has emptied the history and the watcher is about to compare a
\* capture of the content added last: it is a duplicate.
C18_Witness ==
  /\ wpc = "lock"
  /\ guard = Free
  /\ committed # <<>>
  /\ runStart = Len(committed)
  /\ history = <<>>
  /\ max_history_size < DefaultMaxHistorySize
  /\ IsDuplicate(last_content_hash, CaptureFingerprint)

\* ===================================================================
\* The fingerprint on captures of every kind

\* Clipboards that differ in each field the hash is fed with.
FingerprintClips ==
  {ClipState(i, r, h, t) : i \in {Absent} \cup Images,
                           r \in {Absent} \cup Payloads,
                           h \in {Absent} \cup Payloads,
                           t \in {"a", Err}}

FingerprintNext == WatcherStep(FingerprintClips, StoreTimes) \/ ClearStep

FingerprintSpec == Init /\ [][FingerprintNext]_vars

\* What the fingerprint is to depend on.
Fingerprinted(e) == <<e.content, e.html_content, e.rtf_content, e.image_path>>

\* C19 as stated, with a hasher injective on what it is fed: the capture
\* about to be compared has the fingerprint of the item added last exactly
\* when the two agree in display text, html, rich text and image path.
C19_FingerprintSeparatesTuples ==
  wpc = "lock" /\ committed # <<>> =>
    LET last == committed[Len(committed)]
        new == Candidate(0)
    IN calculate_hash(new) = calculate_hash(last)
         <=> Fingerprinted(new) = Fingerprinted(last)

\* ===================================================================
\* Image captures within one second

\* Two different images; every capture below happens in the second
\* StoreTimes holds.
TwoImages == {"png1", "png2"}
ImageClips ==
  {ClipState(i, Absent, Absent, "a") : i \in {Absent} \cup TwoImages}

ImageNext == WatcherStep(ImageClips, StoreTimes) \/ ClearStep

ImageSpec == Init /\ [][ImageNext]_vars

\* C20 as stated: no step changes what get_clipboard_image returns for the
\* image_path of an entry in the history.
C20_ImageBytesNeverChange ==
  [][\A i \in 1..Len(history) :
       history[i].image_path # <<>> =>
         ReadImage(files', history[i].image_path[1])
           = get_clipboard_image(history[i].image_path[1])]_vars

====
